---- MODULE Spec2Model ----
(***************************************************************************)
(* Model of CScreenkey.cpp: the global key/mouse visualiser.  Two builds   *)
(* (platform = "linux" / "windows") share the active-key set, the          *)
(* combination string, the render surface and the quit flag.  The main     *)
(* thread and the event-source thread are interleaved step by step.        *)
(*                                                                         *)
(* Strings are sequences of ASCII codes, so that std::string's ordering    *)
(* and std::toupper are computed and not assumed.                          *)
(***************************************************************************)
EXTENDS Integers, Sequences, FiniteSets

(***************************************************************************)
(* Bounds of the model                                                     *)
(***************************************************************************)
\* number of keycodes of the model keymap that carry the keysyms XK_A, XK_B, ...
NumLetters == 1
\* number of mouse buttons beyond the five of specialKeyMap (codes 6, 7, ...)
NumUnmapped == 2

(***************************************************************************)
(* Strings                                                                 *)
(***************************************************************************)
EmptyStr == << >>
\* " + "
Separator == <<32, 43, 32>>
\* "PAGE UP", "PAGE DOWN", "HOME", "END"
PAGE_UP == <<80, 65, 71, 69, 32, 85, 80>>
PAGE_DOWN == <<80, 65, 71, 69, 32, 68, 79, 87, 78>>
HOME == <<72, 79, 77, 69>>
END_KEY == <<69, 78, 68>>
\* "MOUSE LEFT CLICK", "MOUSE MIDDLE CLICK", "MOUSE RIGHT CLICK"
MOUSE_LEFT_CLICK == <<77, 79, 85, 83, 69, 32, 76, 69, 70, 84, 32, 67, 76, 73, 67, 75>>
MOUSE_MIDDLE_CLICK == <<77, 79, 85, 83, 69, 32, 77, 73, 68, 68, 76, 69, 32, 67, 76, 73, 67, 75>>
MOUSE_RIGHT_CLICK == <<77, 79, 85, 83, 69, 32, 82, 73, 71, 72, 84, 32, 67, 76, 73, 67, 75>>
\* "MOUSE SCROLL UP", "MOUSE SCROLL DOWN"
MOUSE_SCROLL_UP == <<77, 79, 85, 83, 69, 32, 83, 67, 82, 79, 76, 76, 32, 85, 80>>
MOUSE_SCROLL_DOWN == <<77, 79, 85, 83, 69, 32, 83, 67, 82, 79, 76, 76, 32, 68, 79, 87, 78>>
\* "Unknown Mouse Button"
UNKNOWN_MOUSE_BUTTON == <<85, 110, 107, 110, 111, 119, 110, 32, 77, 111, 117, 115, 101, 32, 66, 117, 116, 116, 111, 110>>

\* std::toupper in the "C" locale
ToUpperChar(c) == IF c >= 97 /\ c <= 122 THEN c - 32 ELSE c

\* operator< of std::string: compare character by character, the first
\* difference decides, a proper prefix is less
RECURSIVE StrLessFrom(_, _, _)
StrLessFrom(a, b, i) ==
    IF i > Len(b) THEN FALSE
    ELSE IF i > Len(a) THEN TRUE
    ELSE IF a[i] # b[i] THEN a[i] < b[i]
    ELSE StrLessFrom(a, b, i + 1)

StrLess(a, b) == StrLessFrom(a, b, 1)

Range(s) == {s[i] : i \in 1..Len(s)}

(***************************************************************************)
(* std::set<std::string>: the in-order sequence of the tree                *)
(***************************************************************************)
\* mutation: the container keeps insertion order (a list, not an ordered set)
SetInsert_Append(keys, s) == IF s \in Range(keys) THEN keys ELSE Append(keys, s)

\* mutation: insert replaces the contents
SetInsert_Replace(keys, s) == <<s>>

SetInsert(keys, s) ==
    IF s \in Range(keys) THEN keys
    ELSE LET k == Cardinality({i \in 1..Len(keys) : StrLess(keys[i], s)})
         IN  SubSeq(keys, 1, k) \o <<s>> \o SubSeq(keys, k + 1, Len(keys))

\* mutation: erase of an absent key removes the first element instead
SetErase_Nearest(keys, s) ==
    IF s \in Range(keys) THEN SelectSeq(keys, LAMBDA x : x # s)
    ELSE IF keys = << >> THEN keys ELSE Tail(keys)

SetErase(keys, s) == SelectSeq(keys, LAMBDA x : x # s)

(***************************************************************************)
(* Key codes and the platform's name lookups                               *)
(***************************************************************************)
XK_Home == 65360
XK_Page_Up == 65365
XK_Page_Down == 65366
XK_End == 65367

\* keycodes the X server reports in the model: 8 has no keysym, 9 is XK_a,
\* 10 is XK_Home, 11.. are XK_A, XK_B, ...
Keycodes == 8..(10 + NumLetters)
\* XkbKeycodeToKeysym(display, keycode, 0, 0) under the model keymap
XkbKeycodeToKeysym(keycode) ==
    CASE keycode = 8 -> 0
      [] keycode = 9 -> 97
      [] keycode = 10 -> XK_Home
      [] OTHER -> 65 + (keycode - 11)

\* XKeysymToString: a pointer to the keysym's name, or NULL when it has none
XKeysymToString(keysym) ==
    CASE keysym \in (65..90) \cup (97..122) -> [null |-> FALSE, str |-> <<keysym>>]
      [] keysym = XK_Home -> [null |-> FALSE, str |-> <<72, 111, 109, 101>>]
      [] OTHER -> [null |-> TRUE, str |-> EmptyStr]

\* button codes of XI_ButtonPress / XI_ButtonRelease: the left button and
\* the buttons beyond the five of specialKeyMap
ButtonCodes == {1} \cup (6..(5 + NumUnmapped))

\* what assigning a null char pointer to a std::string (undefined) can do
NullAssignOutcomes == {"crash", "empty"}

MapPut(m, k, v) == [x \in (DOMAIN m) \cup {k} |-> IF x = k THEN v ELSE m[x]]
EmptyMap == [x \in {} |-> EmptyStr]

(***************************************************************************)
(* State                                                                   *)
(***************************************************************************)
VARIABLES
    platform,       \* "linux" or "windows": which #ifdef branch was compiled
    mainPc,         \* position of main()
    evPc,           \* position of the screenKeyThread
    quit,           \* bool quit
    updated,        \* bool updated
    activeKeys,     \* std::set<std::string> activeKeys, in iteration order
    specialKeyMap,  \* std::map<int, std::string> specialKeyMap
    screen,         \* the text last drawn by renderText
    surface,        \* ncurses: "none" before initscr, "up", "down" after endwin
    conn,           \* display / hooks: "none", "open", "closed"
    releases,       \* how many times the connection was released
    crashed,        \* the process was terminated by a fault
    outcome,        \* history: how the latest handler run ended: "rendered",
                    \* "skipped" (mutation, no render), "noop", "fault"; "none" at start;
                    \* "cleared" after a call of clearActiveKeys
    lastApply,      \* history: the latest insert or erase, and the set before it
    pressed,        \* history: logical keys whose latest event was a press
    output_mutex,   \* std::mutex output_mutex: "free" or "held"
    cerr,           \* what startLinuxScreenKey reported on std::cerr: "none",
                    \* "display" (cannot open), "extension" (not available)
    exitCode,       \* what main returned: "none" while it runs
    renderCtx,      \* history: output_mutex and surface as the latest renderText drew
    mutationLock    \* history: output_mutex as the latest insert or erase ran

vars == <<platform, mainPc, evPc, quit, updated, activeKeys, specialKeyMap,
          screen, surface, conn, releases, crashed, outcome, lastApply,
          pressed, output_mutex, cerr, exitCode, renderCtx, mutationLock>>

NoApplyYet == [applied |-> "none", name |-> EmptyStr, before |-> << >>,
               afterInsert |-> FALSE]

NoRenderYet == [lock |-> "never", surface |-> "never"]

Init ==
    /\ platform \in {"linux", "windows"}
    /\ mainPc = "initNcurses"
    /\ evPc = "unstarted"
    /\ quit = FALSE
    /\ updated = FALSE
    /\ activeKeys = << >>
    /\ specialKeyMap = EmptyMap
    /\ screen = EmptyStr
    /\ surface = "none"
    /\ conn = "none"
    /\ releases = 0
    /\ crashed = FALSE
    /\ outcome = "none"
    /\ lastApply = NoApplyYet
    /\ pressed = {}
    /\ output_mutex = "free"
    /\ cerr = "none"
    /\ exitCode = "none"
    /\ renderCtx = NoRenderYet
    /\ mutationLock = "never"

(***************************************************************************)
(* Rendering                                                               *)
(***************************************************************************)
\* renderText: take output_mutex for the body (std::lock_guard), clear, print
\* the text centred, refresh, release the mutex on return
RenderText(inputText) ==
    /\ output_mutex = "free"
    /\ screen' = inputText
    /\ renderCtx' = [lock |-> "held", surface |-> surface]
    /\ output_mutex' = "free"
    /\ outcome' = "rendered"

ToUpper(s) == [i \in 1..Len(s) |-> ToUpperChar(s[i])]

\* showPressedKey
ShowPressedKey(combination) == RenderText(ToUpper(combination))

\* the loop of updateKeyCombination over the set, in iteration order
RECURSIVE JoinKeys(_, _)
JoinKeys(keys, combination) ==
    IF keys = << >> THEN combination
    ELSE JoinKeys(Tail(keys),
                  (IF combination # EmptyStr THEN combination \o Separator
                   ELSE combination) \o Head(keys))

\* mutation: the render is not guarded by !activeKeys.empty()
UpdateKeyCombination_RenderAlways(keys) ==
    /\ ShowPressedKey(JoinKeys(keys, EmptyStr))
    /\ updated' = TRUE

\* updateKeyCombination, run on the set as just mutated
UpdateKeyCombination(keys) ==
    /\ IF keys # << >> THEN ShowPressedKey(JoinKeys(keys, EmptyStr))
       ELSE /\ screen' = screen /\ outcome' = "skipped"
            /\ UNCHANGED <<output_mutex, renderCtx>>
    /\ updated' = TRUE

\* what an insert or erase records in the history: the operation, the name,
\* the set before it, and whether it erases the name inserted just before
Record(applied, name) ==
    lastApply' = [applied |-> applied, name |-> name, before |-> activeKeys,
                  afterInsert |-> /\ applied = "erase"
                                  /\ lastApply.applied = "insert"
                                  /\ lastApply.name = name]

\* a handler run that leaves the set and the screen alone
NoApply ==
    UNCHANGED <<activeKeys, screen, updated, lastApply, output_mutex, renderCtx,
                mutationLock>>

\* mutation: the render of an insert shows the set as it was before the insert
InsertAndUpdate_StaleRender(keyStr) ==
    /\ Record("insert", keyStr)
    /\ mutationLock' = output_mutex
    /\ activeKeys' = SetInsert(activeKeys, keyStr)
    /\ UpdateKeyCombination(activeKeys)

\* activeKeys.insert(keyStr); updateKeyCombination();
InsertAndUpdate(keyStr) ==
    /\ Record("insert", keyStr)
    /\ mutationLock' = output_mutex
    /\ activeKeys' = SetInsert(activeKeys, keyStr)
    /\ UpdateKeyCombination(activeKeys')

\* activeKeys.erase(keyStr); updateKeyCombination();
EraseAndUpdate(keyStr) ==
    /\ Record("erase", keyStr)
    /\ mutationLock' = output_mutex
    /\ activeKeys' = SetErase(activeKeys, keyStr)
    /\ UpdateKeyCombination(activeKeys')

(***************************************************************************)
(* Linux handlers.  key names a logical key in the history.                *)
(***************************************************************************)
\* the lookup shared by handleLinuxKeyPress and handleLinuxKeyRelease: the
\* mapped name, else the name XKeysymToString points to
LinuxKeyLookup(keysym) ==
    IF keysym \in DOMAIN specialKeyMap
    THEN [null |-> FALSE, str |-> specialKeyMap[keysym]]
    ELSE XKeysymToString(keysym)

\* mutation: an unmapped button gets no name
LinuxButtonLookup_Drop(detail) ==
    IF detail \in DOMAIN specialKeyMap THEN specialKeyMap[detail]
    ELSE EmptyStr

\* the lookup shared by handleLinuxButtonPress and handleLinuxButtonRelease
LinuxButtonLookup(detail) ==
    IF detail \in DOMAIN specialKeyMap THEN specialKeyMap[detail]
    ELSE UNKNOWN_MOUSE_BUTTON

HandleLinuxKeyPress(detail) ==
    LET keysym == XkbKeycodeToKeysym(detail)
        r == LinuxKeyLookup(keysym)
    IN  IF r.null
        THEN \E ub \in NullAssignOutcomes :
                 /\ crashed' = (ub = "crash")
                 /\ outcome' = IF ub = "crash" THEN "fault" ELSE "noop"
                 /\ NoApply
                 /\ pressed' = pressed
        ELSE /\ crashed' = crashed
             /\ pressed' = pressed \cup {<<"key", detail>>}
             /\ IF r.str # EmptyStr
                THEN InsertAndUpdate(r.str)
                ELSE NoApply /\ outcome' = "noop"

HandleLinuxKeyRelease(detail) ==
    LET keysym == XkbKeycodeToKeysym(detail)
        r == LinuxKeyLookup(keysym)
    IN  IF r.null
        THEN \E ub \in NullAssignOutcomes :
                 /\ crashed' = (ub = "crash")
                 /\ outcome' = IF ub = "crash" THEN "fault" ELSE "noop"
                 /\ NoApply
                 /\ pressed' = pressed
        ELSE /\ crashed' = crashed
             /\ pressed' = pressed \ {<<"key", detail>>}
             /\ IF r.str # EmptyStr
                THEN EraseAndUpdate(r.str)
                ELSE NoApply /\ outcome' = "noop"

HandleLinuxButtonPress(detail) ==
    LET buttonStr == LinuxButtonLookup(detail)
    IN  /\ pressed' = pressed \cup {<<"button", detail>>}
        /\ crashed' = crashed
        /\ IF buttonStr # EmptyStr
           THEN InsertAndUpdate(buttonStr)
           ELSE NoApply /\ outcome' = "noop"

HandleLinuxButtonRelease(detail) ==
    LET buttonStr == LinuxButtonLookup(detail)
    IN  /\ pressed' = pressed \ {<<"button", detail>>}
        /\ crashed' = crashed
        /\ IF buttonStr # EmptyStr
           THEN EraseAndUpdate(buttonStr)
           ELSE NoApply /\ outcome' = "noop"

(***************************************************************************)
(* startLinuxScreenKey, one action per step of the thread                  *)
(***************************************************************************)
EvUnchangedData ==
    UNCHANGED <<activeKeys, screen, updated, outcome, lastApply, pressed, crashed,
                output_mutex, renderCtx, mutationLock>>

\* display = XOpenDisplay(nullptr); if (!display) { report; return; }
LinuxOpenDisplay ==
    /\ platform = "linux" /\ evPc = "open"
    /\ \E ok \in BOOLEAN :
           IF ok THEN conn' = "open" /\ evPc' = "initializeKeyMappings" /\ cerr' = cerr
           ELSE conn' = conn /\ evPc' = "done" /\ cerr' = "display"
    /\ EvUnchangedData
    /\ UNCHANGED <<platform, mainPc, exitCode, quit, specialKeyMap, surface, releases>>

\* mutation: the mouse buttons are left out of the map
InitializeKeyMappings_Partial(m) ==
    LET m1 == MapPut(m, XK_Page_Up, PAGE_UP)
        m2 == MapPut(m1, XK_Page_Down, PAGE_DOWN)
        m3 == MapPut(m2, XK_Home, HOME)
    IN  MapPut(m3, XK_End, END_KEY)

\* initializeKeyMappings
InitializeKeyMappings(m) ==
    LET m1 == MapPut(m, XK_Page_Up, PAGE_UP)
        m2 == MapPut(m1, XK_Page_Down, PAGE_DOWN)
        m3 == MapPut(m2, XK_Home, HOME)
        m4 == MapPut(m3, XK_End, END_KEY)
        m5 == MapPut(m4, 1, MOUSE_LEFT_CLICK)
        m6 == MapPut(m5, 2, MOUSE_MIDDLE_CLICK)
        m7 == MapPut(m6, 3, MOUSE_RIGHT_CLICK)
        m8 == MapPut(m7, 4, MOUSE_SCROLL_UP)
    IN  MapPut(m8, 5, MOUSE_SCROLL_DOWN)

LinuxInitKeyMappings ==
    /\ platform = "linux" /\ evPc = "initializeKeyMappings"
    /\ specialKeyMap' = InitializeKeyMappings(specialKeyMap)
    /\ evPc' = "XQueryExtension"
    /\ EvUnchangedData
    /\ UNCHANGED <<platform, mainPc, exitCode, cerr, quit, surface, conn, releases>>

\* mutation: the failure is reported but the thread goes on into the loop
LinuxQueryExtension_NoReturn ==
    /\ platform = "linux" /\ evPc = "XQueryExtension"
    /\ \E ok \in BOOLEAN :
           /\ cerr' = IF ok THEN cerr ELSE "extension"
           /\ UNCHANGED <<conn, releases>> /\ evPc' = "loop"
    /\ EvUnchangedData
    /\ UNCHANGED <<platform, mainPc, exitCode, quit, specialKeyMap, surface>>

\* mutation: the failure branch returns without XCloseDisplay
LinuxQueryExtension_Leak ==
    /\ platform = "linux" /\ evPc = "XQueryExtension"
    /\ \E ok \in BOOLEAN :
           /\ cerr' = IF ok THEN cerr ELSE "extension"
           /\ UNCHANGED <<conn, releases>>
           /\ evPc' = IF ok THEN "loop" ELSE "done"
    /\ EvUnchangedData
    /\ UNCHANGED <<platform, mainPc, exitCode, quit, specialKeyMap, surface>>

\* XQueryExtension: on failure report, XCloseDisplay, return; else select the
\* four event types on the root window and enter the loop
LinuxQueryExtension ==
    /\ platform = "linux" /\ evPc = "XQueryExtension"
    /\ \E ok \in BOOLEAN :
           IF ok THEN UNCHANGED <<conn, releases, cerr>> /\ evPc' = "loop"
           ELSE /\ cerr' = "extension"
                /\ conn' = "closed" /\ releases' = releases + 1 /\ evPc' = "done"
    /\ EvUnchangedData
    /\ UNCHANGED <<platform, mainPc, exitCode, quit, specialKeyMap, surface>>

\* mutation: the loop test consumes the flag it reads
LinuxLoopTest_Consume ==
    /\ platform = "linux" /\ evPc = "loop"
    /\ evPc' = IF quit THEN "close" ELSE "wait"
    /\ quit' = FALSE
    /\ EvUnchangedData
    /\ UNCHANGED <<platform, mainPc, exitCode, cerr, specialKeyMap, surface, conn, releases>>

\* while (!quit), on entering the loop
LinuxLoopTest ==
    /\ platform = "linux" /\ evPc = "loop"
    /\ evPc' = IF quit THEN "close" ELSE "wait"
    /\ EvUnchangedData
    /\ UNCHANGED <<platform, mainPc, exitCode, cerr, quit, specialKeyMap, surface, conn, releases>>

\* XNextEvent returns: the thread leaves its wait only when an event arrives.
\* After the handler the loop tests quit again and waits or leaves the loop.
LinuxEventArrives ==
    /\ platform = "linux" /\ evPc = "wait"
    /\ evPc' = IF quit THEN "close" ELSE "wait"
    /\ UNCHANGED <<platform, mainPc, exitCode, cerr, quit, specialKeyMap, surface, conn, releases>>

LinuxKeyPressEvent ==
    LinuxEventArrives /\ \E detail \in Keycodes : HandleLinuxKeyPress(detail)

LinuxKeyReleaseEvent ==
    LinuxEventArrives /\ \E detail \in Keycodes : HandleLinuxKeyRelease(detail)

LinuxButtonPressEvent ==
    LinuxEventArrives /\ \E detail \in ButtonCodes : HandleLinuxButtonPress(detail)

LinuxButtonReleaseEvent ==
    LinuxEventArrives /\ \E detail \in ButtonCodes : HandleLinuxButtonRelease(detail)

\* an event that is no GenericEvent of the input extension, or of another evtype
LinuxOtherEvent ==
    LinuxEventArrives /\ EvUnchangedData

\* XCloseDisplay(display) after the loop
LinuxCloseDisplay ==
    /\ platform = "linux" /\ evPc = "close"
    /\ conn' = "closed" /\ releases' = releases + 1
    /\ evPc' = "done"
    /\ EvUnchangedData
    /\ UNCHANGED <<platform, mainPc, exitCode, cerr, quit, specialKeyMap, surface>>

(***************************************************************************)
(* Windows hooks                                                           *)
(***************************************************************************)
\* scan codes the keyboard hook reports in the model: 30 is A, 0 has no
\* key name
ScanCodes == {0, 30}

\* GetKeyNameTextA(scanCode << 16, key, 16): the length written, 0 on failure
GetKeyNameTextA(scanCode) ==
    CASE scanCode = 30 -> [len |-> 1, str |-> <<65>>]
      [] scanCode = 48 -> [len |-> 1, str |-> <<66>>]
      [] OTHER -> [len |-> 0, str |-> EmptyStr]

\* what std::string keyStr(key) reads from char key[16] when nothing was
\* written to it: the empty string, or whatever the stack held ("?")
UninitializedKeyBuffer == {EmptyStr, <<63>>}

KeyboardWParams == {"WM_KEYDOWN", "WM_KEYUP"}
MouseWParams == {"WM_LBUTTONDOWN", "WM_LBUTTONUP", "WM_MOUSEWHEEL", "WM_MOUSEMOVE"}
HookCodes == {"HC_ACTION", "HC_NOREMOVE"}

LowLevelKeyboardProc(nCode, wParam, scanCode) ==
    IF nCode = "HC_ACTION"
    THEN LET r == GetKeyNameTextA(scanCode)
         IN  \E keyStr \in (IF r.len = 0 THEN UninitializedKeyBuffer ELSE {r.str}) :
                 /\ pressed' = IF r.len = 0 THEN pressed
                               ELSE IF wParam = "WM_KEYUP"
                               THEN pressed \ {<<"key", scanCode>>}
                               ELSE pressed \cup {<<"key", scanCode>>}
                 /\ crashed' = crashed
                 /\ IF wParam = "WM_KEYDOWN"
                    THEN InsertAndUpdate(keyStr)
                    ELSE IF wParam = "WM_KEYUP"
                    THEN EraseAndUpdate(keyStr)
                    ELSE NoApply /\ outcome' = "noop"
    ELSE NoApply /\ outcome' = "noop" /\ UNCHANGED <<pressed, crashed>>

\* the logical button of a mouse message: 1 left, 4 wheel up, 5 wheel down
MouseButtonOf(wParam, delta) ==
    CASE wParam \in {"WM_LBUTTONDOWN", "WM_LBUTTONUP"} -> 1
      [] wParam = "WM_MOUSEWHEEL" -> IF delta > 0 THEN 4 ELSE 5
      [] OTHER -> 0

LowLevelMouseProc(nCode, wParam, delta) ==
    IF nCode = "HC_ACTION"
    THEN LET buttonStr ==
                 CASE wParam = "WM_LBUTTONDOWN" -> MOUSE_LEFT_CLICK
                   [] wParam = "WM_MBUTTONDOWN" -> MOUSE_MIDDLE_CLICK
                   [] wParam = "WM_RBUTTONDOWN" -> MOUSE_RIGHT_CLICK
                   [] wParam = "WM_MOUSEWHEEL" ->
                          IF delta > 0 THEN MOUSE_SCROLL_UP ELSE MOUSE_SCROLL_DOWN
                   [] OTHER -> EmptyStr
             button == MouseButtonOf(wParam, delta)
         IN  /\ pressed' = IF wParam \in {"WM_LBUTTONDOWN", "WM_MOUSEWHEEL"}
                           THEN pressed \cup {<<"button", button>>}
                           ELSE IF wParam = "WM_LBUTTONUP"
                           THEN pressed \ {<<"button", button>>}
                           ELSE pressed
             /\ crashed' = crashed
             /\ IF buttonStr # EmptyStr
                THEN InsertAndUpdate(buttonStr)
                ELSE IF wParam \in {"WM_LBUTTONUP", "WM_MBUTTONUP", "WM_RBUTTONUP"}
                THEN EraseAndUpdate(buttonStr)
                ELSE NoApply /\ outcome' = "noop"
    ELSE NoApply /\ outcome' = "noop" /\ UNCHANGED <<pressed, crashed>>

(***************************************************************************)
(* startWindowsScreenKey                                                   *)
(***************************************************************************)
\* the two SetWindowsHookEx calls
WindowsSetHooks ==
    /\ platform = "windows" /\ evPc = "open"
    /\ \E ok \in BOOLEAN : conn' = IF ok THEN "open" ELSE conn
    /\ evPc' = "loop"
    /\ EvUnchangedData
    /\ UNCHANGED <<platform, mainPc, exitCode, cerr, quit, specialKeyMap, surface, releases>>

\* while (!quit && GetMessage(...)), on entering the loop: the test of quit,
\* then the blocking call
WindowsLoopTest ==
    /\ platform = "windows" /\ evPc = "loop"
    /\ evPc' = IF quit THEN "close" ELSE "wait"
    /\ EvUnchangedData
    /\ UNCHANGED <<platform, mainPc, exitCode, cerr, quit, specialKeyMap, surface, conn, releases>>

\* a hook procedure is called on this thread while it waits in GetMessage
WindowsHookCalled ==
    /\ platform = "windows" /\ evPc = "wait" /\ conn = "open"
    /\ UNCHANGED <<platform, mainPc, exitCode, cerr, evPc, quit, specialKeyMap, surface, conn, releases>>

WindowsKeyboardEvent ==
    /\ WindowsHookCalled
    /\ \E nCode \in HookCodes, wParam \in KeyboardWParams, scanCode \in ScanCodes :
           LowLevelKeyboardProc(nCode, wParam, scanCode)

WindowsMouseEvent ==
    /\ WindowsHookCalled
    /\ \E nCode \in HookCodes, wParam \in MouseWParams, delta \in {-120, 120} :
           LowLevelMouseProc(nCode, wParam, delta)

\* GetMessage returns: WM_QUIT (0, the loop ends), or a posted message
\* (TranslateMessage, DispatchMessage, then the test of quit again)
WindowsGetMessageReturns ==
    /\ platform = "windows" /\ evPc = "wait"
    /\ \E ret \in {0, 1} : evPc' = IF ret = 0 \/ quit THEN "close" ELSE "wait"
    /\ EvUnchangedData
    /\ UNCHANGED <<platform, mainPc, exitCode, cerr, quit, specialKeyMap, surface, conn, releases>>

\* the two UnhookWindowsHookEx calls; on a handle SetWindowsHookEx returned
\* as NULL the call fails and releases nothing
WindowsUnhook ==
    /\ platform = "windows" /\ evPc = "close"
    /\ IF conn = "open" THEN conn' = "closed" /\ releases' = releases + 1
       ELSE UNCHANGED <<conn, releases>>
    /\ evPc' = "done"
    /\ EvUnchangedData
    /\ UNCHANGED <<platform, mainPc, exitCode, cerr, quit, specialKeyMap, surface>>

(***************************************************************************)
(* main                                                                    *)
(***************************************************************************)
MainUnchangedData ==
    UNCHANGED <<platform, updated, activeKeys, specialKeyMap, screen, conn, releases,
                crashed, outcome, lastApply, pressed, output_mutex, cerr, renderCtx,
                mutationLock>>

MainInitNcurses ==
    /\ mainPc = "initNcurses"
    /\ surface' = "up"
    /\ mainPc' = "startThread"
    /\ MainUnchangedData /\ UNCHANGED <<evPc, quit, exitCode>>

\* mutation: the thread may be started before initNcurses has run
MainStartThread_BeforeInit ==
    /\ \/ /\ mainPc = "initNcurses" /\ evPc = "unstarted"
          /\ evPc' = "open" /\ mainPc' = mainPc
       \/ /\ mainPc = "startThread"
          /\ evPc' = IF evPc = "unstarted" THEN "open" ELSE evPc
          /\ mainPc' = "loop"
    /\ MainUnchangedData /\ UNCHANGED <<surface, quit, exitCode>>

\* std::thread screenKeyThread(...)
MainStartThread ==
    /\ mainPc = "startThread"
    /\ evPc' = "open"
    /\ mainPc' = "loop"
    /\ MainUnchangedData /\ UNCHANGED <<surface, quit, exitCode>>

\* while (!quit), on entering the loop
MainLoopTest ==
    /\ mainPc = "loop"
    /\ mainPc' = IF quit THEN "join" ELSE "getch"
    /\ MainUnchangedData /\ UNCHANGED <<surface, evPc, quit, exitCode>>

\* one iteration: ch = getch(); if (ch == 'q') quit = true; sleep_for(100ms);
\* then the loop tests quit again
MainGetch ==
    /\ mainPc = "getch"
    /\ \E ch \in {-1, 113} : quit' = IF ch = 113 THEN TRUE ELSE quit
    /\ mainPc' = IF quit' THEN "join" ELSE "getch"
    /\ MainUnchangedData /\ UNCHANGED <<surface, evPc, exitCode>>

\* mutation: main does not wait for the thread
MainJoin_NoWait ==
    /\ mainPc = "join"
    /\ mainPc' = "endwin"
    /\ MainUnchangedData /\ UNCHANGED <<surface, evPc, quit, exitCode>>

\* if (screenKeyThread.joinable()) screenKeyThread.join();
MainJoin ==
    /\ mainPc = "join"
    /\ evPc = "done"
    /\ mainPc' = "endwin"
    /\ MainUnchangedData /\ UNCHANGED <<surface, evPc, quit, exitCode>>

\* endwin(); return 0;
MainEndwin ==
    /\ mainPc = "endwin"
    /\ surface' = "down"
    /\ exitCode' = 0
    /\ mainPc' = "exited"
    /\ MainUnchangedData /\ UNCHANGED <<evPc, quit>>

(***************************************************************************)
(* Specification                                                           *)
(***************************************************************************)
MainStep ==
    \/ MainInitNcurses
    \/ MainStartThread
    \/ MainLoopTest
    \/ MainGetch
    \/ MainJoin
    \/ MainEndwin

\* the steps the event-source thread takes by itself
EvThreadStep ==
    \/ LinuxOpenDisplay
    \/ LinuxInitKeyMappings
    \/ LinuxQueryExtension
    \/ LinuxLoopTest
    \/ LinuxCloseDisplay
    \/ WindowsSetHooks
    \/ WindowsLoopTest
    \/ WindowsUnhook

\* the steps that need the environment to deliver an event or a message
EventStep ==
    \/ LinuxKeyPressEvent
    \/ LinuxKeyReleaseEvent
    \/ LinuxButtonPressEvent
    \/ LinuxButtonReleaseEvent
    \/ LinuxOtherEvent
    \/ WindowsKeyboardEvent
    \/ WindowsMouseEvent
    \/ WindowsGetMessageReturns

Next == ~crashed /\ (MainStep \/ EvThreadStep \/ EventStep)

Spec == Init /\ [][Next]_vars

\* both threads are scheduled; no input event is ever owed by the environment
FairSpec == Spec /\ WF_vars(~crashed /\ MainStep) /\ WF_vars(~crashed /\ EvThreadStep)

(***************************************************************************)
(* clearActiveKeys.  The program has no caller for it, so it is no step of *)
(* Next; ClearSpec adds a caller that may run it once the event loop has   *)
(* ended, when the set and the surface hold whatever a run can leave in    *)
(* them, to examine what a call does.                                      *)
(***************************************************************************)
\* mutation: the call also blanks the surface
ClearActiveKeys_Render ==
    /\ evPc \in {"close", "done"}
    /\ Record("clear", EmptyStr)
    /\ mutationLock' = output_mutex
    /\ activeKeys' = << >>
    /\ screen' = EmptyStr
    /\ outcome' = "cleared"
    /\ UNCHANGED <<platform, mainPc, evPc, quit, updated, specialKeyMap, surface,
                   conn, releases, crashed, pressed, output_mutex, cerr, exitCode,
                   renderCtx>>

\* activeKeys.clear();
ClearActiveKeys ==
    /\ evPc \in {"close", "done"}
    /\ Record("clear", EmptyStr)
    /\ mutationLock' = output_mutex
    /\ activeKeys' = << >>
    /\ outcome' = "cleared"
    /\ UNCHANGED <<platform, mainPc, evPc, quit, updated, specialKeyMap, screen,
                   surface, conn, releases, crashed, pressed, output_mutex, cerr,
                   exitCode, renderCtx>>

ClearNext == Next \/ (~crashed /\ ClearActiveKeys)

ClearSpec == Init /\ [][ClearNext]_vars

(***************************************************************************)
(* Reference definitions for the properties                                *)
(***************************************************************************)
\* the least string of a non-empty set
MinStr(S) == CHOOSE x \in S : \A y \in S \ {x} : StrLess(x, y)

\* the names of S joined by " + " in ascending order
RECURSIVE JoinSorted(_)
JoinSorted(S) ==
    IF S = {} THEN EmptyStr
    ELSE LET m == MinStr(S)
         IN  IF S = {m} THEN m ELSE m \o Separator \o JoinSorted(S \ {m})

\* the logical keys and buttons that have a DisplayName, and that name
NamedKeys ==
    IF platform = "linux"
    THEN {<<"key", d>> : d \in {d \in Keycodes : ~XKeysymToString(XkbKeycodeToKeysym(d)).null}}
         \cup {<<"button", b>> : b \in ButtonCodes}
    ELSE {<<"key", c>> : c \in {c \in ScanCodes : GetKeyNameTextA(c).len > 0}}
         \cup {<<"button", b>> : b \in {1, 4, 5}}

DisplayNameOf(k) ==
    IF platform = "linux"
    THEN IF k[1] = "key"
         THEN LET keysym == XkbKeycodeToKeysym(k[2])
                  m == InitializeKeyMappings(EmptyMap)
              IN  IF keysym \in DOMAIN m THEN m[keysym] ELSE XKeysymToString(keysym).str
         ELSE LET m == InitializeKeyMappings(EmptyMap)
              IN  IF k[2] \in DOMAIN m THEN m[k[2]] ELSE UNKNOWN_MOUSE_BUTTON
    ELSE IF k[1] = "key" THEN GetKeyNameTextA(k[2]).str
         ELSE CASE k[2] = 1 -> MOUSE_LEFT_CLICK
                [] k[2] = 4 -> MOUSE_SCROLL_UP
                [] OTHER -> MOUSE_SCROLL_DOWN

\* the latest handler run inserted or erased the name recorded in lastApply
LatestRunApplied == outcome \in {"rendered", "skipped"}

(***************************************************************************)
(* C1: between handlers, a key's DisplayName is in the active set iff the  *)
(* latest event processed for that key was a press not yet followed by a   *)
(* release of that key.                                                    *)
(***************************************************************************)
C1_PresentIffPressed ==
    \A k \in NamedKeys : (DisplayNameOf(k) \in Range(activeKeys)) <=> (k \in pressed)

(***************************************************************************)
(* C2 as stated: once an apply has run, the text last delivered to the     *)
(* renderer is the combination string of the current active set, and is    *)
(* empty when the set is empty.                                            *)
(***************************************************************************)
C2_ScreenIsCombinationOfSet ==
    updated => screen = JoinSorted(Range(activeKeys))

(***************************************************************************)
(* C2 amended: an apply that leaves the set non-empty delivers the         *)
(* upper-cased join of its non-empty names in sorted order; an apply that  *)
(* leaves the set empty delivers nothing and the surface keeps its text.   *)
(***************************************************************************)
C2_RenderFollowsNonEmptySet ==
    /\ activeKeys # << >> =>
           screen = ToUpper(JoinSorted(Range(activeKeys) \ {EmptyStr}))
    /\ (LatestRunApplied /\ activeKeys # << >>) => outcome = "rendered"
    /\ activeKeys = << >> => outcome # "rendered"
    /\ (/\ LatestRunApplied /\ activeKeys = << >>
        /\ lastApply.applied = "erase" /\ lastApply.before # << >>)
       => screen = ToUpper(JoinSorted(Range(lastApply.before) \ {EmptyStr}))

C2_Witness_StaleTextAfterRelease ==
    /\ activeKeys = << >> /\ outcome = "skipped"
    /\ lastApply.applied = "erase" /\ lastApply.before # << >>
    /\ screen = ToUpper(lastApply.name) /\ screen # EmptyStr

(***************************************************************************)
(* C3: the combination string built from the active set is the names of    *)
(* the set joined by " + " in sorted order, whatever order they came in.   *)
(***************************************************************************)
C3_CombinationIsSortedJoin ==
    JoinKeys(activeKeys, EmptyStr) = JoinSorted(Range(activeKeys))

(***************************************************************************)
(* C4: a release of a name that is not in the active set leaves the set    *)
(* as it was and is no error.                                              *)
(***************************************************************************)
C4_ReleaseOfAbsentIsNoOp ==
    (/\ LatestRunApplied
     /\ lastApply.applied = "erase"
     /\ lastApply.name \notin Range(lastApply.before))
    => (activeKeys = lastApply.before /\ ~crashed)

C4_Witness_AbsentReleased ==
    /\ LatestRunApplied
    /\ lastApply.applied = "erase"
    /\ lastApply.name \notin Range(lastApply.before)
    /\ Len(lastApply.before) >= 2

(***************************************************************************)
(* C5: after apply(X, true) immediately followed by apply(X, false), X is  *)
(* absent and every other name is in the set iff it was in the set before  *)
(* the press.                                                              *)
(***************************************************************************)
C5_PressThenRelease ==
    [][ (/\ lastApply.applied = "insert"
         /\ lastApply'.applied = "erase"
         /\ lastApply'.name = lastApply.name)
        => /\ lastApply.name \notin Range(activeKeys')
           /\ Range(activeKeys') \ {lastApply.name}
                  = Range(lastApply.before) \ {lastApply.name}
      ]_vars

C5_Witness_PressedThenReleased ==
    /\ LatestRunApplied
    /\ lastApply.applied = "erase"
    /\ lastApply.afterInsert
    /\ lastApply.name \notin Range(activeKeys)
    /\ Len(activeKeys) >= 2

(***************************************************************************)
(* C6: a press of a button whose code is not in specialKeyMap puts         *)
(* "Unknown Mouse Button" into the active set, and the release of that     *)
(* button takes it out again (XI_ButtonPress / XI_ButtonRelease handlers). *)
(***************************************************************************)
C6_UnmappedButtonPlaceholder ==
    [][ platform = "linux" =>
            \A b \in ButtonCodes \ DOMAIN specialKeyMap :
                /\ (<<"button", b>> \in pressed' \ pressed)
                       => UNKNOWN_MOUSE_BUTTON \in Range(activeKeys')
                /\ (<<"button", b>> \in pressed \ pressed')
                       => UNKNOWN_MOUSE_BUTTON \notin Range(activeKeys')
      ]_vars

C6_Witness_PlaceholderRemoved ==
    /\ platform = "linux"
    /\ LatestRunApplied
    /\ lastApply.applied = "erase" /\ lastApply.name = UNKNOWN_MOUSE_BUTTON
    /\ UNKNOWN_MOUSE_BUTTON \in Range(lastApply.before)
    /\ UNKNOWN_MOUSE_BUTTON \notin Range(activeKeys)
    /\ pressed \cap {<<"button", b>> : b \in ButtonCodes \ DOMAIN specialKeyMap} = {}

(***************************************************************************)
(* C7: a key event whose code is not in specialKeyMap and whose name       *)
(* lookup fails is a no-op: the handler run ends without a fault and the   *)
(* event source goes on.                                                   *)
(***************************************************************************)
C7_FailedLookupIsNoOp ==
    (platform = "linux" /\ outcome \in {"noop", "fault"}) => ~crashed

(***************************************************************************)
(* C8: the active set never contains the empty DisplayName.                *)
(***************************************************************************)
C8_NoEmptyName == EmptyStr \notin Range(activeKeys)

(***************************************************************************)
(* C9: once quit is set while the event-source thread is blocked in its    *)
(* wait, the thread eventually returns, also when no further event comes.  *)
(***************************************************************************)
C9_ShutdownLiveness == (quit /\ evPc = "wait") ~> (evPc = "done")

(***************************************************************************)
(* C10: the render surface is torn down only after the event-source        *)
(* thread has finished, so its connection is no longer open by then.       *)
(***************************************************************************)
C10_TeardownAfterThread ==
    surface = "down" => (evPc = "done" /\ conn # "open")

C10_Witness_TornDownAfterClose ==
    surface = "down" /\ conn = "closed" /\ releases = 1

(***************************************************************************)
(* C11: the shutdown flag starts false and only ever goes from false to    *)
(* true: no step of either thread resets it.                               *)
(***************************************************************************)
C11_QuitMonotone == (quit = FALSE) /\ [][quit => quit']_vars

\* the flag was set while the thread waited, and both threads went on to the end
C11_Witness_QuitStaysSet ==
    /\ quit
    /\ mainPc = "exited"
    /\ evPc = "done"
    /\ updated

(***************************************************************************)
(* C12: once the event source has reported that it could not open its      *)
(* connection (no display, or no input extension), its thread has returned *)
(* without entering the loop: no event was processed, the active set is    *)
(* empty, nothing crashed, main's join is not held up, and main returns 0; *)
(* and once 'q' is read after such a failure, main does exit.              *)
(***************************************************************************)
C12_ConnectionFailureIsQuiet ==
    /\ [](cerr # "none" =>
             /\ evPc = "done"
             /\ outcome = "none" /\ ~updated /\ lastApply = NoApplyYet
             /\ activeKeys = << >> /\ screen = EmptyStr
             /\ ~crashed
             /\ (mainPc = "exited" => (exitCode = 0 /\ surface = "down")))
    /\ ((cerr # "none" /\ quit) ~> (mainPc = "exited" /\ exitCode = 0))

\* the extension was missing, 'q' was read, and main has returned
C12_Witness_ExitAfterFailure ==
    /\ cerr = "extension"
    /\ quit
    /\ mainPc = "exited"
    /\ exitCode = 0

C14_SingleCriticalSection ==
    /\ mutationLock \in {"never", "held"}
    /\ renderCtx.lock \in {"never", "held"}

(***************************************************************************)
(* C15: every change of the displayed text is the render of the handler    *)
(* run that made it and shows the combination of the set as that run left  *)
(* it: the render of one mutation is complete when the next is processed,  *)
(* and the display never goes back to the combination of an older set.     *)
(***************************************************************************)
C15_RenderFollowsMutationOrder ==
    [][screen' # screen =>
         /\ outcome' = "rendered"
         /\ lastApply'.before = activeKeys
         /\ activeKeys' # << >>
         /\ screen' = ToUpper(JoinKeys(activeKeys', EmptyStr))]_vars

\* after three mutations the display shows the combination of the newest set
C15_Witness_NewestShown ==
    /\ outcome = "rendered"
    /\ lastApply.applied = "erase"
    /\ Len(lastApply.before) = 3
    /\ Len(activeKeys) = 2
    /\ screen = ToUpper(JoinKeys(activeKeys, EmptyStr))

(***************************************************************************)
(* C16: the loop tests the shutdown flag after every event it processes:   *)
(* an event processed while the flag is true is the last one, the thread   *)
(* does not go back to its wait after it.                                  *)
(***************************************************************************)
C16_FlagTestedPerEvent ==
    [][(quit /\ evPc' = "wait") =>
           UNCHANGED <<activeKeys, screen, updated, outcome, lastApply, pressed>>]_vars

(***************************************************************************)
(* C17: the special key map                                                *)
(***************************************************************************)
\* the nine entries of the fully populated map
FullKeyMap ==
    [k \in {XK_Page_Up, XK_Page_Down, XK_Home, XK_End, 1, 2, 3, 4, 5} |->
        CASE k = XK_Page_Up -> PAGE_UP
          [] k = XK_Page_Down -> PAGE_DOWN
          [] k = XK_Home -> HOME
          [] k = XK_End -> END_KEY
          [] k = 1 -> MOUSE_LEFT_CLICK
          [] k = 2 -> MOUSE_MIDDLE_CLICK
          [] k = 3 -> MOUSE_RIGHT_CLICK
          [] k = 4 -> MOUSE_SCROLL_UP
          [] OTHER -> MOUSE_SCROLL_DOWN]

\* C17 as stated: once an event has been processed the map holds all its
\* entries, and every entry is a non-empty name.
C17_MapPopulatedBeforeEvents ==
    /\ outcome # "none" => specialKeyMap = FullKeyMap
    /\ \A k \in DOMAIN specialKeyMap : specialKeyMap[k] # EmptyStr

\* C17 as amended: in the Linux variant the map holds all its entries from
\* before the loop is entered, so before the first event is processed; in the
\* Windows variant it is never populated and stays empty; in both no step of
\* the thread inside its loop changes it (a lookup of an absent code adds no
\* entry) and every entry is a non-empty name.
C17_MapBuiltOnceOnLinux ==
    /\ [](/\ (platform = "linux" /\ (evPc \in {"loop", "wait", "close"} \/ outcome # "none"))
               => specialKeyMap = FullKeyMap
          /\ platform = "windows" => specialKeyMap = EmptyMap
          /\ \A k \in DOMAIN specialKeyMap : specialKeyMap[k] # EmptyStr)
    /\ [][(evPc \in {"loop", "wait", "close", "done"}) => specialKeyMap' = specialKeyMap]_vars

\* codes absent from the map were looked up (an unmapped button is held, a
\* letter was pressed) and the map is still the populated one
C17_Witness_LookupAddsNoEntry ==
    /\ platform = "linux"
    /\ UNKNOWN_MOUSE_BUTTON \in Range(activeKeys)
    /\ lastApply.applied = "insert"
    /\ lastApply.name = <<97>>
    /\ specialKeyMap = FullKeyMap

(***************************************************************************)
(* C18: order of the rendered tokens                                       *)
(***************************************************************************)
\* the tokens of a rendered text, read left to right between the separators
RECURSIVE SplitAt(_, _, _)
SplitAt(text, i, cur) ==
    IF i > Len(text) THEN <<cur>>
    ELSE IF i + 2 <= Len(text) /\ SubSeq(text, i, i + 2) = Separator
    THEN <<cur>> \o SplitAt(text, i + 3, EmptyStr)
    ELSE SplitAt(text, i + 1, Append(cur, text[i]))

Tokens(text) == SplitAt(text, 1, EmptyStr)

\* C18 as stated: the tokens of the text on the surface are in ascending
\* order, no token is less than the one before it.
C18_RenderedTokensAscending ==
    LET t == Tokens(screen)
    IN  \A i \in 1..(Len(t) - 1) : ~StrLess(t[i + 1], t[i])

\* C18 as amended: the names of the set are in strictly ascending order as
\* held (byte-wise, before upper-casing), and the tokens of the text rendered
\* for a non-empty set are its non-empty names in that order, each upper-cased.
C18_TokensAreUpperCasedSortedNames ==
    activeKeys # << >> =>
        LET names == SelectSeq(activeKeys, LAMBDA x : x # EmptyStr)
        IN  /\ \A i \in 1..Len(activeKeys) : \A j \in (i + 1)..Len(activeKeys) :
                   StrLess(activeKeys[i], activeKeys[j])
            /\ IF names = << >> THEN screen = EmptyStr
               ELSE Tokens(screen) = [i \in 1..Len(names) |-> ToUpper(names[i])]

\* a platform symbol name in lower case is held next to an upper-case special
\* name: "HOME" sorts before "a", and the text shows HOME before A
C18_Witness_MixedCaseOutOfOrder ==
    /\ activeKeys = <<HOME, <<97>>>>
    /\ Tokens(screen) = <<HOME, <<65>>>>

(***************************************************************************)
(* C19: a call of clearActiveKeys leaves the active set empty whatever it  *)
(* held, draws nothing (the text on the surface and the record of the      *)
(* latest render are as before), and is no part of the processing of a     *)
(* press or release: the step that clears processes no event.              *)
(***************************************************************************)
C19_ClearEmptiesWithoutRender ==
    [][(outcome' = "cleared" /\ (outcome # "cleared" \/ lastApply' # lastApply)) =>
         /\ lastApply'.applied = "clear"
         /\ lastApply'.before = activeKeys
         /\ activeKeys' = << >>
         /\ UNCHANGED <<screen, renderCtx, updated, pressed>>]_vars

\* the set held two names and text was on the surface; after the call the
\* set is empty and the text is still there
C19_Witness_ClearedWhileShowing ==
    /\ outcome = "cleared"
    /\ lastApply.applied = "clear"
    /\ Len(lastApply.before) = 2
    /\ activeKeys = << >>
    /\ screen = ToUpper(JoinKeys(lastApply.before, EmptyStr))
    /\ screen # EmptyStr

(***************************************************************************)
(* C20: every renderText of the event-source thread drew on a surface that *)
(* was up: initNcurses had run and endwin had not.                         *)
(***************************************************************************)
C20_RenderOnLiveSurface ==
    /\ renderCtx.surface \in {"never", "up"}
    /\ outcome = "rendered" => renderCtx.surface = "up"
    /\ surface = "none" => renderCtx = NoRenderYet

\* text was drawn during the run and the surface has since been torn down
C20_Witness_DrawnThenTornDown ==
    /\ renderCtx.surface = "up"
    /\ screen # EmptyStr
    /\ surface = "down"
    /\ mainPc = "exited"

====
